---- MODULE Spec2Model ----
(***************************************************************************)
(* Configuration resolution of torf-cli: src/torfcli/_configfile.py.       *)
(*                                                                         *)
(* read() parses an INI-style file into a nested mapping, validate()       *)
(* checks it against the defaults, and combine() merges command-line       *)
(* values, the validated mapping, the defaults and the selected profiles.  *)
(*                                                                         *)
(* A Python str is a sequence of one-character strings.  A Python value    *)
(* is a record tagged with its type: bool, str, list, dict or none.  A     *)
(* Python dict is the sequence of its entries [k, v] in insertion order,   *)
(* which is the order in which Python iterates over it.                    *)
(***************************************************************************)
EXTENDS Naturals, Sequences, FiniteSets

VARIABLES pc, file, raw, validated, cli, resolved

vars == <<pc, file, raw, validated, cli, resolved>>

(***************************************************************************)
(* Bounds of the model.                                                    *)
(***************************************************************************)
\* The longest file, in lines.
MaxLines == 3
\* The longest list of selected profiles on the command line.
MaxProfiles == 2

(***************************************************************************)
(* Python values.                                                          *)
(***************************************************************************)
BoolV(b) == [t |-> "bool", b |-> b]
StrV(s) == [t |-> "str", s |-> s]
ListV(l) == [t |-> "list", l |-> l]
DictV(d) == [t |-> "dict", d |-> d]
NoneV == [t |-> "none"]

\* type(value)
TypeOf(value) == value.t

\* Python truthiness, as tested by `if value:` and `if not msg:`.
Truthy(value) ==
    CASE value.t = "bool" -> value.b
      [] value.t = "str" -> value.s # <<>>
      [] value.t = "list" -> value.l # <<>>
      [] value.t = "dict" -> value.d # <<>>
      [] OTHER -> FALSE

\* a == b on Python values
PyEq(a, b) == a.t = b.t /\ a = b

(***************************************************************************)
(* Python dicts, in insertion order.                                       *)
(***************************************************************************)
\* dict.keys(), as a set
Keys(d) == {d[i].k : i \in 1..Len(d)}

\* name in d
HasKey(d, name) == \E i \in 1..Len(d) : d[i].k = name

\* d[name], for a name that d holds
Get(d, name) == d[CHOOSE i \in 1..Len(d) : d[i].k = name].v

\* d[name] = value: a held name keeps its place, a new one goes last
Put(d, name, value) ==
    IF HasKey(d, name)
    THEN [i \in 1..Len(d) |-> IF d[i].k = name THEN [k |-> name, v |-> value] ELSE d[i]]
    ELSE Append(d, [k |-> name, v |-> value])

(***************************************************************************)
(* Python strings.                                                         *)
(***************************************************************************)
\* What \s matches and str.strip() removes, among the characters used here.
Whitespace == {" ", "\t"}

IsSpace(c) == c \in Whitespace

\* s[i:], zero-based like Python: the characters after the first i
Drop(s, i) == SubSeq(s, i + 1, Len(s))

\* str.lstrip()
RECURSIVE LStrip(_)
LStrip(s) == IF s # <<>> /\ IsSpace(Head(s)) THEN LStrip(Tail(s)) ELSE s

\* str.rstrip()
RECURSIVE RStrip(_)
RStrip(s) ==
    IF s # <<>> /\ IsSpace(s[Len(s)]) THEN RStrip(SubSeq(s, 1, Len(s) - 1)) ELSE s

\* str.strip()
Strip(s) == RStrip(LStrip(s))

\* \S+ matches all of s
NoSpace(s) == s # <<>> /\ \A i \in 1..Len(s) : ~IsSpace(s[i])

(***************************************************************************)
(* The two regular expressions.                                            *)
(***************************************************************************)
\* _re_bool = ^(\S+)$ matches the line
re_bool_match(line) == NoSpace(line)

\* The ends i of the candidates for group 1 of _re_assign: line[1..i] is \S+, and
\* after it come \s* and then "=".
AssignEnds(line) ==
    {i \in 1..Len(line) :
        /\ NoSpace(SubSeq(line, 1, i))
        /\ LStrip(Drop(line, i)) # <<>>
        /\ Head(LStrip(Drop(line, i))) = "="}

\* _re_assign = ^(\S+)\s*=\s*(.*)\s*$ matches the line
re_assign_match(line) == AssignEnds(line) # {}

\* The greedy \S+ takes the longest candidate.
AssignEnd(line) == CHOOSE i \in AssignEnds(line) : \A j \in AssignEnds(line) : j <= i

\* assign_match.group(1)
AssignName(line) == SubSeq(line, 1, AssignEnd(line))

\* assign_match.group(2).strip(): what follows the "=" that ends \s*=
AssignValue(line) == Strip(Tail(LStrip(Drop(line, AssignEnd(line)))))

(***************************************************************************)
(* read(): the parser.                                                     *)
(*                                                                         *)
(* The loop's state is cfg and subcfg.  subcfg is cfg itself until the     *)
(* first profile starts (top), and afterwards the dict stored in cfg       *)
(* under profile_name: only a profile line writes to cfg directly, and it  *)
(* rebinds subcfg, so subcfg is always one of the two.                     *)
(***************************************************************************)
\* cfg = subcfg = {}
ReadStart == [ok |-> TRUE, cfg |-> <<>>, top |-> TRUE, profile_name |-> <<>>, exc |-> ""]

\* An exception leaves read(): nothing is returned.
Raised(exc) == [ok |-> FALSE, cfg |-> <<>>, top |-> TRUE, profile_name |-> <<>>, exc |-> exc]

\* subcfg
subcfg(st) == IF st.top THEN st.cfg ELSE Get(st.cfg, st.profile_name).d

\* subcfg[name] = value
SetSub(st, name, value) ==
    IF st.top
    THEN [st EXCEPT !.cfg = Put(st.cfg, name, value)]
    ELSE [st EXCEPT !.cfg = Put(st.cfg, st.profile_name, DictV(Put(subcfg(st), name, value)))]

\* if not line or line[0] == '#'
IsSkipped(line) == line = <<>> \/ line[1] = "#"

\* if line[0] == '[' and line[-1] == ']'
IsProfileLine(line) == line[1] = "[" /\ line[Len(line)] = "]"

\* value[0] == value[-1] == '"' or value[0] == value[-1] == "'", for a non-empty value
IsQuoted(value) ==
    \/ value[1] = "\"" /\ value[Len(value)] = "\""
    \/ value[1] = "'" /\ value[Len(value)] = "'"

\* value[1:-1] where the value is quoted
Unquote(value) == IF IsQuoted(value) THEN SubSeq(value, 2, Len(value) - 1) ELSE value

\* Multiple occurences of the same name turn its value into a list
Accumulate(st, name, value) ==
    IF HasKey(subcfg(st), name)
    THEN LET old == Get(subcfg(st), name)
             lst == IF old.t = "list" THEN old.l ELSE <<old>>
         IN SetSub(st, name, ListV(Append(lst, StrV(value))))
    ELSE SetSub(st, name, StrV(value))

\* A profile line that goes on with the profile of that name where the file
\* has opened it before.
OpenProfileMerging(st, profile_name) ==
    [st EXCEPT !.cfg = IF HasKey(st.cfg, profile_name)
                          /\ TypeOf(Get(st.cfg, profile_name)) = "dict"
                       THEN st.cfg
                       ELSE Put(st.cfg, profile_name, DictV(<<>>)),
               !.top = FALSE,
               !.profile_name = profile_name]

\* cfg[profile_name] = subcfg = {}
OpenProfile(st, profile_name) ==
    [st EXCEPT !.cfg = Put(st.cfg, profile_name, DictV(<<>>)),
               !.top = FALSE,
               !.profile_name = profile_name]

\* One pass of the loop body over a line of the file.
ReadLine(st, text) ==
    LET line == Strip(text) IN
    IF ~st.ok THEN st
    ELSE IF IsSkipped(line) THEN st
    ELSE IF IsProfileLine(line) THEN OpenProfile(st, SubSeq(line, 2, Len(line) - 1))
    ELSE IF re_bool_match(line) THEN SetSub(st, line, BoolV(TRUE))
    ELSE IF re_assign_match(line)
    THEN IF AssignValue(line) = <<>>
         THEN Raised("IndexError")
         ELSE Accumulate(st, AssignName(line), Unquote(AssignValue(line)))
    ELSE st

\* The loop over the first n lines.
RECURSIVE ReadLines(_, _)
ReadLines(lines, n) ==
    IF n = 0 THEN ReadStart ELSE ReadLine(ReadLines(lines, n - 1), lines[n])

\* read(filepath), for a file that opens and holds these lines
read(lines) ==
    LET st == ReadLines(lines, Len(lines))
    IN IF st.ok THEN [ok |-> TRUE, cfg |-> st.cfg, exc |-> ""]
       ELSE [ok |-> FALSE, cfg |-> <<>>, exc |-> st.exc]

(***************************************************************************)
(* ConfigError and validate().                                             *)
(***************************************************************************)
\* ConfigError.__init__(name, value, msg): `if value` decides whether the value
\* is shown and which message is the default one.  msg = "" stands for msg=None
\* (`if not msg` takes both the same way), value = NoneV for value=None.
ConfigError(name, value, msg) ==
    IF Truthy(value)
    THEN [exc |-> "ConfigError", name |-> name, value |-> value,
          msg |-> IF msg # "" THEN msg ELSE "Invalid value"]
    ELSE [exc |-> "ConfigError", name |-> name, value |-> NoneV,
          msg |-> IF msg # "" THEN msg ELSE "Invalid argument"]

\* repr(item) of a str without backslashes or control characters, or of a bool
Repr(item) ==
    IF item.t = "bool" THEN (IF item.b THEN <<"T", "r", "u", "e">> ELSE <<"F", "a", "l", "s", "e">>)
    ELSE LET s == item.s
             single == \E i \in 1..Len(s) : s[i] = "'"
             double == \E i \in 1..Len(s) : s[i] = "\""
             Esc(c) == IF c = "'" THEN <<"\\", "'">> ELSE <<c>>
             RECURSIVE EscAll(_)
             EscAll(r) == IF r = <<>> THEN <<>> ELSE Esc(Head(r)) \o EscAll(Tail(r))
         IN IF single /\ ~double THEN <<"\"">> \o s \o <<"\"">>
            ELSE <<"'">> \o EscAll(s) \o <<"'">>

\* ', '.join((repr(item) for item in items))
RECURSIVE JoinRepr(_)
JoinRepr(items) ==
    IF items = <<>> THEN <<>>
    ELSE IF Len(items) = 1 THEN Repr(items[1])
    ELSE Repr(Head(items)) \o <<",", " ">> \o JoinRepr(Tail(items))

\* if name not in defaults
UnknownName(name, defaults) == ~HasKey(defaults, name)

\* A type check that tests for a flag before it tests for a list of values.
CheckValueFlagFirst(name, value_cfgfile, defaults) ==
    LET value_default == Get(defaults, name) IN
    IF TypeOf(value_cfgfile) # TypeOf(value_default)
    THEN IF TypeOf(value_default) = "list"
         THEN [ok |-> TRUE, val |-> ListV(<<value_cfgfile>>)]
         ELSE IF TypeOf(value_default) = "bool"
         THEN [ok |-> FALSE,
               err |-> ConfigError(name, value_cfgfile, "Assignment to option")]
         ELSE IF TypeOf(value_cfgfile) = "list"
         THEN [ok |-> FALSE,
               err |-> ConfigError(name, StrV(JoinRepr(value_cfgfile.l)),
                                   "Multiple values not allowed")]
         ELSE [ok |-> FALSE, err |-> ConfigError(name, value_cfgfile, "")]
    ELSE [ok |-> TRUE, val |-> value_cfgfile]

\* The outcome of the type check of one non-profile entry: the value stored in
\* result, or the ConfigError raised.
CheckValue(name, value_cfgfile, defaults) ==
    LET value_default == Get(defaults, name) IN
    IF TypeOf(value_cfgfile) # TypeOf(value_default)
    THEN IF TypeOf(value_default) = "list"
         THEN [ok |-> TRUE, val |-> ListV(<<value_cfgfile>>)]
         ELSE IF TypeOf(value_cfgfile) = "list"
         THEN [ok |-> FALSE,
               err |-> ConfigError(name, StrV(JoinRepr(value_cfgfile.l)),
                                   "Multiple values not allowed")]
         ELSE IF TypeOf(value_default) = "bool"
         THEN [ok |-> FALSE,
               err |-> ConfigError(name, value_cfgfile, "Assignment to option")]
         ELSE [ok |-> FALSE, err |-> ConfigError(name, value_cfgfile, "")]
    ELSE [ok |-> TRUE, val |-> value_cfgfile]

\* validate(cfgfile, defaults) over the first n entries of cfgfile:
\* [ok |-> TRUE, val |-> result] or [ok |-> FALSE, err |-> the exception].
RECURSIVE ValidateTo(_, _, _)

\* A validate() that stores a profile as it was read, unchecked.
ValidateProfileUnchecked(profile, defaults) == [ok |-> TRUE, val |-> profile]

\* validate(value_cfgfile, defaults), the call that checks a profile
ValidateProfile(profile, defaults) == ValidateTo(profile, defaults, Len(profile))

ValidateTo(cfgfile, defaults, n) ==
    IF n = 0 THEN [ok |-> TRUE, val |-> <<>>]
    ELSE LET before == ValidateTo(cfgfile, defaults, n - 1)
             name == cfgfile[n].k
             value_cfgfile == cfgfile[n].v
         IN IF ~before.ok THEN before
            ELSE IF TypeOf(value_cfgfile) = "dict"
            THEN LET sub == ValidateProfile(value_cfgfile.d, defaults)
                 IN IF sub.ok
                    THEN [ok |-> TRUE, val |-> Put(before.val, name, DictV(sub.val))]
                    ELSE sub
            ELSE IF UnknownName(name, defaults)
            THEN [ok |-> FALSE, err |-> ConfigError(name, NoneV, "")]
            ELSE LET checked == CheckValue(name, value_cfgfile, defaults)
                 IN IF checked.ok
                    THEN [ok |-> TRUE, val |-> Put(before.val, name, checked.val)]
                    ELSE checked

validate(cfgfile, defaults) == ValidateTo(cfgfile, defaults, Len(cfgfile))

(***************************************************************************)
(* combine().                                                              *)
(***************************************************************************)
\* 'profile'
kProfile == <<"p", "r", "o", "f", "i", "l", "e">>

\* The first loop, over the first n names of defaults: CLI, then file, then default.
RECURSIVE BaseTo(_, _, _, _)
BaseTo(cli_, cfgfile, defaults, n) ==
    IF n = 0 THEN <<>>
    ELSE LET name == defaults[n].k
         IN Put(BaseTo(cli_, cfgfile, defaults, n - 1), name,
                IF HasKey(cli_, name) THEN Get(cli_, name)
                ELSE IF HasKey(cfgfile, name) THEN Get(cfgfile, name)
                ELSE Get(defaults, name))

\* profile_names = cli.get('profile', ())
ProfileNames(cli_) ==
    IF HasKey(cli_, kProfile)
    THEN LET l == Get(cli_, kProfile).l IN [i \in 1..Len(l) |-> l[i].s]
    ELSE <<>>

\* A test that keeps every value the command line holds, default or not.
KeepsCliAlways(cli_, defaults, name) == HasKey(cli_, name)

\* if name in cli and cli[name] != defaults[name]: continue
KeepsCli(cli_, defaults, name) ==
    HasKey(cli_, name) /\ ~PyEq(Get(cli_, name), Get(defaults, name))

\* The inner loop over the first n items of a profile, starting from result.
RECURSIVE ApplyProfileTo(_, _, _, _, _)
ApplyProfileTo(result, profile, cli_, defaults, n) ==
    IF n = 0 THEN [ok |-> TRUE, val |-> result]
    ELSE LET before == ApplyProfileTo(result, profile, cli_, defaults, n - 1)
             name == profile[n].k
             value == profile[n].v
         IN IF ~before.ok THEN before
            ELSE IF HasKey(cli_, name) /\ ~HasKey(defaults, name)
            THEN [ok |-> FALSE, err |-> [exc |-> "KeyError", name |-> name]]
            ELSE IF KeepsCli(cli_, defaults, name) THEN before
            ELSE [ok |-> TRUE, val |-> Put(before.val, name, value)]

\* The outer loop over the first n selected profile names.
RECURSIVE ApplyProfilesTo(_, _, _, _, _, _)
ApplyProfilesTo(result, profile_names, cli_, cfgfile, defaults, n) ==
    IF n = 0 THEN [ok |-> TRUE, val |-> result]
    ELSE LET before == ApplyProfilesTo(result, profile_names, cli_, cfgfile, defaults, n - 1)
             profile_name == profile_names[n]
         IN IF ~before.ok THEN before
            ELSE IF ~HasKey(cfgfile, profile_name)
            THEN [ok |-> FALSE, err |-> ConfigError(profile_name, NoneV, "No such profile")]
            ELSE LET profile == Get(cfgfile, profile_name)
                 IN IF TypeOf(profile) # "dict"
                    THEN [ok |-> FALSE, err |-> [exc |-> "AttributeError"]]
                    ELSE ApplyProfileTo(before.val, profile.d, cli_, defaults, Len(profile.d))

\* combine(cli, cfgfile, defaults):
\* [ok |-> TRUE, val |-> result] or [ok |-> FALSE, err |-> the exception].
combine(cli_, cfgfile, defaults) ==
    ApplyProfilesTo(BaseTo(cli_, cfgfile, defaults, Len(defaults)),
                    ProfileNames(cli_), cli_, cfgfile, defaults,
                    Len(ProfileNames(cli_)))

(***************************************************************************)
(* The inputs of the model: a schema, the lines a file is made of and the  *)
(* command lines.                                                          *)
(***************************************************************************)
kVerbose == <<"v", "e", "r", "b", "o", "s", "e">>
kName == <<"n", "a", "m", "e">>
kTracker == <<"t", "r", "a", "c", "k", "e", "r">>
kTypo == <<"t", "y", "p", "o">>
kP == <<"P">>

\* The defaults handed to validate() and combine(): a flag, a single-value
\* option, a multi-value option, and the list of selected profiles.
DEFAULTS ==
    << [k |-> kVerbose, v |-> BoolV(FALSE)],
       [k |-> kName, v |-> StrV(<<>>)],
       [k |-> kTracker, v |-> ListV(<<>>)],
       [k |-> kProfile, v |-> ListV(<<>>)] >>

\* Pieces of lines.
Eq == <<" ", "=", " ">>
Header(name) == <<"[">> \o name \o <<"]">>

\* The lines of the files the whole pipeline is run on.
Lines ==
    { kVerbose,                      \* verbose
      kVerbose \o Eq \o <<"a">>,     \* verbose = a
      kName \o Eq \o <<"a">>,        \* name = a
      kName \o Eq \o <<"b">>,        \* name = b
      kTracker,                      \* tracker
      kTracker \o Eq \o <<"a">>,     \* tracker = a
      kTypo,                         \* typo
      Header(kP),                    \* [P]
      Header(kVerbose) }             \* [verbose]

\* The lines of the files the parser alone is run on: the forms of a line and
\* the whitespace around "=".
TextLines ==
    { <<>>,                                          \* an empty line
      <<"#", " ", "c">>,                             \* # c
      Header(kP),                                    \* [P]
      Header(kName),                                 \* [name]
      kVerbose,                                      \* verbose
      kName,                                         \* name
      kName \o <<" ", "=", " ", "a">>,               \* name = a
      kName \o <<" ", "=", "b">>,                    \* name =b
      kName \o <<"=", " ", "c">>,                    \* name= c
      kName \o <<"=", "d">>,                         \* name=d
      <<" ">> \o kName \o <<"\t", "=", "e", " ">>,   \* name<tab>=e, in blanks
      kName \o <<" ", "=", " ", "\"", "f", "\"">>,   \* name = "f"
      kName \o <<" ", "=">>,                         \* name =
      kName \o <<" ", "g">> }                        \* name g

\* The sequences over S of at most n elements.
SeqsUpTo(S, n) == UNION {[1..m -> S] : m \in 0..n}

Files == SeqsUpTo(Lines, MaxLines)
TextFiles == SeqsUpTo(TextLines, MaxLines)

\* The names a command line selects as profiles: P is a profile of the files
\* that hold [P]; verbose is a profile where the file holds [verbose], and an
\* option where it holds verbose at top level.
Selectable == {kP, kVerbose}

Selections == SeqsUpTo({StrV(n) : n \in Selectable}, MaxProfiles)

\* A dict with these entries, where each entry is given or left out.
RECURSIVE DictsOf(_)
DictsOf(choices) ==
    IF choices = <<>> THEN {<<>>}
    ELSE LET rest == DictsOf(Tail(choices))
             name == Head(choices).k
         IN rest \cup {<<[k |-> name, v |-> value]>> \o d : value \in Head(choices).vs, d \in rest}

\* The command lines: every value has the shape of its default.
Clis ==
    DictsOf(<< [k |-> kVerbose, vs |-> {BoolV(FALSE)}],
               [k |-> kName, vs |-> {StrV(<<>>), StrV(<<"b">>)}],
               [k |-> kProfile, vs |-> {ListV(sel) : sel \in Selections}] >>)

(***************************************************************************)
(* The pipeline: read(), then validate(), then combine().                   *)
(***************************************************************************)
NotYet == [ok |-> FALSE]

Init ==
    /\ pc = "start"
    /\ file = <<>>
    /\ raw = NotYet
    /\ validated = NotYet
    /\ cli = <<>>
    /\ resolved = NotYet

\* cfgfile = read(filepath), for one of the files
ReadFrom(files) ==
    /\ pc = "start"
    /\ \E f \in files :
        /\ file' = f
        /\ raw' = read(f)
        /\ pc' = IF read(f).ok THEN "read" ELSE "read failed"
    /\ UNCHANGED <<validated, cli, resolved>>

Read == ReadFrom(Files)

ReadText == ReadFrom(TextFiles)

\* cfgfile = validate(cfgfile, defaults)
Validate ==
    /\ pc = "read"
    /\ validated' = validate(raw.cfg, DEFAULTS)
    /\ pc' = IF validate(raw.cfg, DEFAULTS).ok THEN "validated" ELSE "validate failed"
    /\ UNCHANGED <<file, raw, cli, resolved>>

\* cfg = combine(cli, cfgfile, defaults), for one of the command lines
Combine ==
    /\ pc = "validated"
    /\ \E c \in Clis :
        /\ cli' = c
        /\ resolved' = combine(c, validated.val, DEFAULTS)
        /\ pc' = IF combine(c, validated.val, DEFAULTS).ok THEN "done" ELSE "combine failed"
    /\ UNCHANGED <<file, raw, validated>>

Next == Read \/ Validate \/ Combine

Spec == Init /\ [][Next]_vars

\* The parser alone, on the files that vary the form of a line.
NextRead == ReadText

SpecRead == Init /\ [][NextRead]_vars

(***************************************************************************)
(* Vocabulary of the properties.                                           *)
(***************************************************************************)
\* combine() has run, and returned or raised.
Combined == pc \in {"done", "combine failed"}

\* validate() has run, and returned or raised.
Validated == pc \in {"validated", "validate failed", "done", "combine failed"}

\* The names selected on the command line, in order.
Selected == ProfileNames(cli)

\* name is a profile of the mapping, not an option of it.
IsProfile(cfgfile, name) == HasKey(cfgfile, name) /\ TypeOf(Get(cfgfile, name)) = "dict"

\* name is an option at the top level of the mapping, not a profile.
IsOption(cfgfile, name) == HasKey(cfgfile, name) /\ TypeOf(Get(cfgfile, name)) # "dict"

\* The places in the selection of the profiles that hold k.
SelectedWith(k) ==
    {i \in 1..Len(Selected) :
        IsProfile(validated.val, Selected[i]) /\ HasKey(Get(validated.val, Selected[i]).d, k)}

\* The value k has in the last selected profile that holds it.
LastProfileValue(k) ==
    LET last == CHOOSE i \in SelectedWith(k) : \A j \in SelectedWith(k) : j <= i
    IN Get(Get(validated.val, Selected[last]).d, k)

(***************************************************************************)
(* C1.  As claimed: a value present in the CLI mapping always wins over    *)
(* the selected profiles: whenever combine returns, every key k of the     *)
(* CLI mapping that some selected profile holds is resolved to cli[k].     *)
(***************************************************************************)
C1_CliAlwaysWins ==
    pc = "done" =>
        \A k \in Keys(cli) :
            SelectedWith(k) # {} => Get(resolved.val, k) = Get(cli, k)

(***************************************************************************)
(* C1, amended.  A CLI value wins over the selected profiles exactly when  *)
(* it differs from the Schema default: every key k of the CLI mapping with *)
(* cli[k] # defaults[k] is resolved to cli[k]; a key k whose CLI value     *)
(* equals the default and that some selected profile holds is resolved to  *)
(* the value of the last selected profile holding it.                      *)
(***************************************************************************)
C1_NonDefaultCliWins ==
    pc = "done" =>
        \A k \in Keys(cli) :
            IF ~PyEq(Get(cli, k), Get(DEFAULTS, k))
            THEN Get(resolved.val, k) = Get(cli, k)
            ELSE SelectedWith(k) # {} => Get(resolved.val, k) = LastProfileValue(k)

\* combine returned with a non-default CLI value kept against a selected
\* profile that holds another value for the same key.
C1_Witness ==
    /\ pc = "done"
    /\ \E k \in Keys(cli) :
        /\ ~PyEq(Get(cli, k), Get(DEFAULTS, k))
        /\ SelectedWith(k) # {}
        /\ LastProfileValue(k) # Get(cli, k)
        /\ Get(resolved.val, k) = Get(cli, k)

(***************************************************************************)
(* C2.  Whenever read, validate and combine all return, every resolved     *)
(* value has the type of the Schema default of its key.                    *)
(***************************************************************************)
C2_ShapesMatch ==
    pc = "done" =>
        \A i \in 1..Len(resolved.val) :
            TypeOf(resolved.val[i].v) = TypeOf(Get(DEFAULTS, resolved.val[i].k))

(***************************************************************************)
(* C3.  Whenever read, validate and combine all return, the keys of the    *)
(* result are the keys of the Schema, each once, whatever profiles were    *)
(* applied.                                                                *)
(***************************************************************************)
C3_KeysAreSchemaKeys ==
    pc = "done" =>
        /\ Keys(resolved.val) = Keys(DEFAULTS)
        /\ Len(resolved.val) = Len(DEFAULTS)

\* combine returned after applying a selected profile that holds options.
C3_Witness ==
    /\ pc = "done"
    /\ \E i \in 1..Len(Selected) : Get(validated.val, Selected[i]).d # <<>>

(***************************************************************************)
(* C4.  Whenever combine returns, a Schema key k absent from the CLI       *)
(* mapping is resolved to the value of the last selected profile holding   *)
(* k; with no such profile, to the option k of the file's top level when   *)
(* there is one; otherwise to the Schema default.  A profile that is not   *)
(* selected contributes nothing.                                           *)
(***************************************************************************)
C4_ProfileFileDefault ==
    pc = "done" =>
        \A k \in Keys(DEFAULTS) \ Keys(cli) :
            Get(resolved.val, k) =
                IF SelectedWith(k) # {} THEN LastProfileValue(k)
                ELSE IF IsOption(validated.val, k) THEN Get(validated.val, k)
                ELSE Get(DEFAULTS, k)

(***************************************************************************)
(* C6.  combine either returns, when every selected name is a profile of   *)
(* the validated mapping, or raises ConfigError 'No such profile' naming   *)
(* the first selected name that is not a profile.                          *)
(***************************************************************************)
C6_OnlyNoSuchProfile ==
    Combined =>
        LET bad == {i \in 1..Len(Selected) : ~IsProfile(validated.val, Selected[i])}
            first == CHOOSE i \in bad : \A j \in bad : i <= j
        IN IF bad = {} THEN resolved.ok
           ELSE /\ ~resolved.ok
                /\ resolved.err = ConfigError(Selected[first], NoneV, "No such profile")

(***************************************************************************)
(* The entries of a raw mapping in the order validate() meets them.        *)
(***************************************************************************)
\* The default of the option is a boolean: the option is a flag.
IsFlag(name) == HasKey(DEFAULTS, name) /\ TypeOf(Get(DEFAULTS, name)) = "bool"

\* The entry is a flag that the file assigned a value to, once (a string) or
\* more than once (a list).
FlagWithValue(e) == IsFlag(e.k) /\ TypeOf(e.v) \in {"str", "list"}

\* validate() accepts this entry of a profile or, where it is no profile, of
\* the top level.
EntryAccepted(e) ==
    /\ TypeOf(e.v) # "dict"
    /\ ~UnknownName(e.k, DEFAULTS)
    /\ CheckValue(e.k, e.v, DEFAULTS).ok

\* validate() accepts the first n entries of the top level, profiles included.
AcceptedTo(cfgfile, n) ==
    \A j \in 1..n :
        IF TypeOf(cfgfile[j].v) = "dict"
        THEN \A m \in 1..Len(cfgfile[j].v.d) : EntryAccepted(cfgfile[j].v.d[m])
        ELSE EntryAccepted(cfgfile[j])

\* The flags with a value, each with what validate() has accepted when it
\* reaches it: at top level, and inside every profile.
FlagsWithValue ==
    {[e |-> raw.cfg[i], first |-> AcceptedTo(raw.cfg, i - 1)] :
        i \in {i \in 1..Len(raw.cfg) : FlagWithValue(raw.cfg[i])}}
    \cup
    UNION {LET d == raw.cfg[i].v.d
           IN {[e |-> d[m],
                first |-> AcceptedTo(raw.cfg, i - 1) /\ AcceptedTo(d, m - 1)] :
                   m \in {m \in 1..Len(d) : FlagWithValue(d[m])}} :
              i \in {i \in 1..Len(raw.cfg) : TypeOf(raw.cfg[i].v) = "dict"}}

(***************************************************************************)
(* C7.  As claimed: validate fails on every flag that the file assigned a  *)
(* value to, with the reason 'Assignment to option', whether the raw value *)
(* is a single string or a list, at top level or inside a profile (the     *)
(* reason being that of the first entry validate rejects).                 *)
(***************************************************************************)
C7_AssignmentToOption ==
    Validated =>
        \A f \in FlagsWithValue :
            /\ ~validated.ok
            /\ f.first =>
                /\ validated.err.exc = "ConfigError"
                /\ validated.err.name = f.e.k
                /\ validated.err.msg = "Assignment to option"

(***************************************************************************)
(* C7, amended.  validate fails on every flag that the file assigned a     *)
(* value to, at top level or inside a profile; where that flag is the      *)
(* first entry validate rejects, the ConfigError names it, with the reason *)
(* 'Assignment to option' when the raw value is a single string and        *)
(* 'Multiple values not allowed' when it is a list.                        *)
(***************************************************************************)
C7_FlagWithValueFails ==
    Validated =>
        \A f \in FlagsWithValue :
            /\ ~validated.ok
            /\ f.first =>
                /\ validated.err.exc = "ConfigError"
                /\ validated.err.name = f.e.k
                /\ validated.err.msg =
                       IF TypeOf(f.e.v) = "str" THEN "Assignment to option"
                       ELSE "Multiple values not allowed"

\* validate has rejected, with 'Multiple values not allowed', a flag that a
\* profile of the file assigned twice.
C7_Witness ==
    /\ pc = "validate failed"
    /\ \E f \in FlagsWithValue :
        /\ f.first
        /\ TypeOf(f.e.v) = "list"
        /\ ~HasKey(raw.cfg, f.e.k)
        /\ validated.err.name = f.e.k
        /\ validated.err.msg = "Multiple values not allowed"

\* The value has the shape of the default of the name.
HasSchemaShape(name, value) ==
    /\ HasKey(DEFAULTS, name)
    /\ TypeOf(value) = TypeOf(Get(DEFAULTS, name))
    /\ TypeOf(value) = "list" => \A i \in 1..Len(value.l) : TypeOf(value.l[i]) = "str"

(***************************************************************************)
(* C8.  Whenever validate returns, every leaf of the returned mapping, at  *)
(* top level and inside every profile, has the Schema shape of its name:   *)
(* a boolean for a flag, a string for a single-value option, a list of     *)
(* strings for a multi-value option.                                       *)
(***************************************************************************)
C8_ValidatedShapes ==
    (Validated /\ validated.ok) =>
        \A i \in 1..Len(validated.val) :
            LET e == validated.val[i]
            IN IF TypeOf(e.v) = "dict"
               THEN \A m \in 1..Len(e.v.d) : HasSchemaShape(e.v.d[m].k, e.v.d[m].v)
               ELSE HasSchemaShape(e.k, e.v)

(***************************************************************************)
(* Vocabulary of the parser's properties: the forms of a line, as the      *)
(* grammar of the file gives them.                                         *)
(***************************************************************************)
\* read() has run, and returned or raised.
WasRead == pc # "start"

\* A token: one or more characters, none of them whitespace or "=".
IsToken(s) == NoSpace(s) /\ \A i \in 1..Len(s) : s[i] # "="

\* The places of "=" in the line, and the first of them.
EqualSigns(line) == {i \in 1..Len(line) : line[i] = "="}
FirstEqual(line) == CHOOSE i \in EqualSigns(line) : \A j \in EqualSigns(line) : i <= j

\* What stands before the first "=" of the line and what stands after it, trimmed.
KeyOf(line) == Strip(SubSeq(line, 1, FirstEqual(line) - 1))
ValueOf(line) == Strip(Drop(line, FirstEqual(line)))

\* The form of a line of the file: blank or comment, `[name]`, bare flag,
\* `key = value` with any whitespace or none around the "=", or none of these.
FormOf(text) ==
    LET line == Strip(text) IN
    IF IsSkipped(line) THEN "skipped"
    ELSE IF IsProfileLine(line) THEN "profile"
    ELSE IF IsToken(line) THEN "flag"
    ELSE IF EqualSigns(line) # {} /\ IsToken(KeyOf(line)) /\ ValueOf(line) # <<>>
    THEN "assignment"
    ELSE "none"

\* The lines of the file that have one of the recognized forms.
Recognized(lines) == LET Known(text) == FormOf(text) # "none" IN SelectSeq(lines, Known)

(***************************************************************************)
(* C5.  read never fails on the content of a file: it returns a mapping    *)
(* for every sequence of lines, and the lines that have none of the        *)
(* recognized forms, `key =` among them, leave that mapping as it is       *)
(* without them.                                                           *)
(***************************************************************************)
C5_ReadNeverFails ==
    WasRead =>
        /\ raw.ok
        /\ raw.cfg = read(Recognized(file)).cfg

(***************************************************************************)
(* Vocabulary of C9: the scopes of a file.  Scope 0 is the top level, the  *)
(* lines before the first profile line; scope h is the profile that line h *)
(* opens, the lines after h up to the next profile line, for the last line *)
(* h that opens a profile of that name.                                    *)
(***************************************************************************)
ProfileLines == {i \in 1..Len(file) : FormOf(file[i]) = "profile"}

\* The name that profile line h opens.
OpenedBy(h) == LET line == Strip(file[h]) IN SubSeq(line, 2, Len(line) - 1)

Scopes == {0} \cup {h \in ProfileLines : \A j \in ProfileLines : j > h => OpenedBy(j) # OpenedBy(h)}

\* Line i belongs to scope s.
InScope(s, i) == i > s /\ \A j \in ProfileLines : ~(s < j /\ j <= i)

\* What the Raw Mapping holds for scope s.
ScopeMapping(s) == IF s = 0 THEN raw.cfg ELSE Get(raw.cfg, OpenedBy(s)).d

\* The values that the `key = value` lines of scope s assign to k, in the order
\* of the lines, each without its pair of quotes.
Assigned(s, k) ==
    LET Assigns(i) == InScope(s, i) /\ FormOf(file[i]) = "assignment" /\ KeyOf(Strip(file[i])) = k
        at == SelectSeq([i \in 1..Len(file) |-> i], Assigns)
    IN [j \in 1..Len(at) |-> StrV(Unquote(ValueOf(Strip(file[at[j]]))))]

\* A bare-token line of scope s names k.
FlaggedIn(s, k) ==
    \E i \in 1..Len(file) : InScope(s, i) /\ FormOf(file[i]) = "flag" /\ Strip(file[i]) = k

\* The keys that the `key = value` lines of the file assign to.
AssignedKeys ==
    {KeyOf(Strip(file[i])) : i \in {i \in 1..Len(file) : FormOf(file[i]) = "assignment"}}

(***************************************************************************)
(* C9.  Whenever read returns, for every scope and every key that n >= 1   *)
(* `key = value` lines of the scope assign to and no bare-token line of    *)
(* the scope names, the Raw Mapping holds for the key, in that scope, the  *)
(* string assigned when n = 1 and the list of the n strings, in the order  *)
(* of their lines, when n >= 2.                                            *)
(***************************************************************************)
C9_AccumulatesInOrder ==
    (WasRead /\ raw.ok) =>
        \A s \in Scopes : \A k \in AssignedKeys :
            (Assigned(s, k) # <<>> /\ ~FlaggedIn(s, k)) =>
                /\ HasKey(ScopeMapping(s), k)
                /\ Get(ScopeMapping(s), k) =
                       IF Len(Assigned(s, k)) = 1 THEN Assigned(s, k)[1]
                       ELSE ListV(Assigned(s, k))

\* A token that is a key or a plain value: it starts no comment and no profile,
\* and it holds no quote.
IsPlain(s) ==
    /\ IsToken(s)
    /\ s[1] \notin {"#", "["}
    /\ \A i \in 1..Len(s) : s[i] \notin {"\"", "'"}

\* The value, or the last of a list of values.
LastOf(value) == IF TypeOf(value) = "list" THEN value.l[Len(value.l)] ELSE value

(***************************************************************************)
(* C10.  Whitespace around "=" does not matter: a line `key = value`,      *)
(* `key =value`, `key= value` or `key=value`, for a key and a value that   *)
(* are tokens, leaves the string value under key in the current scope      *)
(* (alone, or last in the list of the values of key); and a line is        *)
(* recorded as a flag with value true only when it is one token without    *)
(* "=".                                                                    *)
(***************************************************************************)
C10_WhitespaceAroundEqual ==
    WasRead =>
        \A i \in 1..Len(file) :
            LET before == ReadLines(file, i - 1)
                after == ReadLines(file, i)
                line == Strip(file[i])
            IN before.ok =>
                /\ (/\ FormOf(file[i]) = "assignment"
                    /\ IsPlain(KeyOf(line))
                    /\ IsPlain(ValueOf(line)))
                   => /\ after.ok
                      /\ HasKey(subcfg(after), KeyOf(line))
                      /\ LastOf(Get(subcfg(after), KeyOf(line))) = StrV(ValueOf(line))
                /\ (/\ after.ok
                    /\ FormOf(file[i]) \notin {"skipped", "profile"}
                    /\ HasKey(subcfg(after), line)
                    /\ Get(subcfg(after), line) = BoolV(TRUE))
                   => IsToken(line)

(***************************************************************************)
(* Vocabulary of C11: the openings of a profile.                           *)
(***************************************************************************)
\* The profile lines before h that open the name that h opens.
EarlierOpenings(h) == {j \in ProfileLines : j < h /\ OpenedBy(j) = OpenedBy(h)}

\* The lines after profile line h, up to the next profile line or the end.
SectionOf(h) ==
    LET after == {j \in ProfileLines : j > h}
        stop == IF after = {} THEN Len(file)
                ELSE (CHOOSE j \in after : \A m \in after : j <= m) - 1
    IN SubSeq(file, h + 1, stop)

\* The options that the lines of the section of h record, read on their own.
RecordedIn(h) == read(SectionOf(h)).cfg

(***************************************************************************)
(* C11.  Profiles of the same name are not merged: whenever read returns   *)
(* and the file opens a profile name more than once, the Raw Mapping holds *)
(* under that name exactly the options that the lines after the last       *)
(* `[name]` line record, up to the next profile line or the end, and none  *)
(* recorded under an earlier opening.                                      *)
(***************************************************************************)
C11_LastOpeningOnly ==
    (WasRead /\ raw.ok) =>
        \A h \in Scopes \ {0} :
            EarlierOpenings(h) # {} =>
                /\ IsProfile(raw.cfg, OpenedBy(h))
                /\ Get(raw.cfg, OpenedBy(h)).d = RecordedIn(h)

\* read returned for a file that opens a profile twice and records an option
\* under the first opening that the lines after the last opening do not record:
\* the profile of the Raw Mapping does not hold it.
C11_Witness ==
    /\ WasRead /\ raw.ok
    /\ \E h \in Scopes \ {0} : \E j \in EarlierOpenings(h) :
        \E k \in Keys(RecordedIn(j)) :
            /\ k \notin Keys(RecordedIn(h))
            /\ k \notin Keys(Get(raw.cfg, OpenedBy(h)).d)

====
